---------------------------- MODULE Spec2Model ----------------------------
(***************************************************************************)
(* OCR execution and document-state engine of doc-manager-app.             *)
(*                                                                         *)
(*   lib/pdf/ocr.py      run_ocr, _pick_lang, _run_cli_streaming           *)
(*   lib/pdf/sidecar.py  load_sidecar_dict, ensure_sidecar,                *)
(*                       update_sidecar_ocr                                *)
(*   pages/25_...py      write_sidecar_if_needed                           *)
(*                       and the classification pass                       *)
(*   pages/40_...py      the OCR batch loop                                *)
(*                                                                         *)
(* A Python string is a sequence of characters.  The characters of a       *)
(* language spec are the separator "+", the blank " " and one character    *)
(* per language-name atom ("jpn", "eng", "deu").                           *)
(***************************************************************************)
EXTENDS Integers, Sequences, FiniteSets, TLC

None == "None"

(***************************************************************************)
(* Bounds of the model.                                                    *)
(***************************************************************************)
\* longest requested language spec, in characters
MaxLen == 4
\* largest "current page" a log line carries
MaxCur == 2
\* largest "total pages" a log line carries
MaxTotal == 2
\* seconds by which the wall clock advances in one step of the model
TimeStep == 100
\* the wall clock stops advancing here
MaxTime == 400
\* the calendar clock of the sidecar timestamps stops advancing here
MaxWall == 1
\* the operator presses the batch button at most this many times
MaxRuns == 2

(***************************************************************************)
(* Strings.                                                                *)
(***************************************************************************)
LangAtoms == {"jpn", "eng", "deu"}
Chars == LangAtoms \cup {"+", " "}

RECURSIVE StringsUpTo(_)
StringsUpTo(n) ==
    IF n = 0 THEN {<<>>}
    ELSE LET S == StringsUpTo(n - 1)
         IN  S \cup {Append(s, c) : s \in {t \in S : Len(t) = n - 1}, c \in Chars}

\* the names `tesseract --list-langs` can print
LangNames == {<<a>> : a \in LangAtoms}

ENG == <<"eng">>

\* first index of character c in s, 0 when there is none
RECURSIVE IndexFrom(_, _, _)
IndexFrom(s, c, i) ==
    IF i > Len(s) THEN 0
    ELSE IF s[i] = c THEN i
    ELSE IndexFrom(s, c, i + 1)

\* str.split("+"): the pieces between separators, empty pieces kept
RECURSIVE SplitPlus(_)
SplitPlus(s) ==
    LET i == IndexFrom(s, "+", 1)
    IN  IF i = 0 THEN <<s>>
        ELSE <<SubSeq(s, 1, i - 1)>> \o SplitPlus(SubSeq(s, i + 1, Len(s)))

RECURSIVE LStrip(_)
LStrip(s) == IF s # <<>> /\ Head(s) = " " THEN LStrip(Tail(s)) ELSE s

RECURSIVE RStrip(_)
RStrip(s) ==
    IF s # <<>> /\ s[Len(s)] = " " THEN RStrip(SubSeq(s, 1, Len(s) - 1)) ELSE s

\* str.strip()
Strip(s) == RStrip(LStrip(s))

\* "+".join(parts)
RECURSIVE JoinPlus(_)
JoinPlus(parts) ==
    IF parts = <<>> THEN <<>>
    ELSE IF Len(parts) = 1 THEN parts[1]
    ELSE parts[1] \o <<"+">> \o JoinPlus(Tail(parts))

(***************************************************************************)
(* Language Availability Resolver.                                         *)
(***************************************************************************)
\* _tesseract_has_lang: membership in the listed names; a failing
\* `tesseract --list-langs` is the empty list
_tesseract_has_lang(lang, langs) == lang \in langs

\* parts = [p.strip() for p in (requested or "").split("+") if p.strip()]
LangParts(req) ==
    LET pieces == SplitPlus(req)
        stripped == [i \in 1..Len(pieces) |-> Strip(pieces[i])]
    IN  SelectSeq(stripped, LAMBDA p : p # <<>>)

\* a resolver that forgets to filter by availability
_pick_lang_unfiltered(req, langs) ==
    LET parts == LangParts(req)
    IN  IF parts # <<>> THEN JoinPlus(parts) ELSE ENG

_pick_lang(req, langs) ==
    LET parts == LangParts(req)
        avail == SelectSeq(parts, LAMBDA p : _tesseract_has_lang(p, langs))
    IN  IF avail # <<>> THEN JoinPlus(avail)
        ELSE IF _tesseract_has_lang(ENG, langs) THEN ENG
        ELSE IF parts # <<>> THEN parts[1]
        ELSE ENG


(***************************************************************************)
(* Progress Parser.                                                        *)
(*                                                                         *)
(* A log line is the sequence of (cur, total) pairs that the patterns of   *)
(* _PAGE_PATTERNS capture in it, in pattern order; patterns that do not    *)
(* match contribute nothing.  <<>> is a line no pattern matches.  A second *)
(* capture is reached only when the first one has total = 0.               *)
(***************************************************************************)
Pairs == (0..MaxCur) \X (0..MaxTotal)

Lines ==
    {<<>>} \cup {<<p>> : p \in Pairs}
           \cup {<<p, q>> : p \in {r \in Pairs : r[2] = 0}, q \in Pairs}

RECURSIVE _extract_page_progress(_)
_extract_page_progress(l) ==
    IF l = <<>> THEN None
    ELSE IF Head(l)[2] > 0 THEN Head(l)
    ELSE _extract_page_progress(Tail(l))

(***************************************************************************)
(* Fractions: a Python float n/d is the pair <<n, d>> in lowest terms.     *)
(***************************************************************************)
RECURSIVE GCD(_, _)
GCD(a, b) == IF b = 0 THEN a ELSE GCD(b, a % b)

Frac(n, d) == LET g == GCD(n, d) IN <<n \div g, d \div g>>

ZERO == <<0, 1>>
ONE == <<1, 1>>

FracLeq(a, b) == a[1] * b[2] <= b[1] * a[2]
FracMin(a, b) == IF FracLeq(a, b) THEN a ELSE b
FracMax(a, b) == IF FracLeq(b, a) THEN a ELSE b

Max2(a, b) == IF a >= b THEN a ELSE b

\* the conversion without its clamp
page_frac_unclamped(cur, total) == Frac(cur, Max2(total, 1))

\* frac = max(0.0, min(cur / max(total, 1), 1.0))
page_frac(cur, total) ==
    FracMax(ZERO, FracMin(Frac(cur, Max2(total, 1)), ONE))

(***************************************************************************)
(* State.                                                                  *)
(***************************************************************************)
VARIABLES
    requested,          \* run_ocr's lang argument
    installed,          \* the names tesseract lists
    has_cb,             \* progress_cb is not None
    hard_timeout_sec,   \* run_ocr's hard_timeout_sec argument
    pc,                 \* where run_ocr is
    stage,              \* which call of _run_cli_streaming is active
    lang_eff,           \* run_ocr's lang_eff
    runs,               \* the backend runs of this job, in call order
    exc,                \* the exception run_ocr raised
    child,              \* the subprocess of _run_cli_streaming
    stdout_eof,         \* its output stream is at end of file
    clock,              \* time.time(), in seconds since the spawn
    start,              \* _run_cli_streaming's start
    last_out,           \* _run_cli_streaming's last_out
    last_frac,          \* _run_cli_streaming's last_frac
    cb,                 \* the last call of the progress callback
    files,              \* the sidecar file of each document
    doc_kind,           \* what quick_pdf_info says of each document
    wall,               \* datetime.now()
    ret,                \* the last sidecar call and what it returned
    attrs,              \* each document's name suffix and lock flag
    derived,            \* dest_ocr_path(p).exists() of each document
    pass,               \* the page loop in progress, if any
    todo,               \* the documents its loop has yet to visit
    before,             \* the sidecar files when the loop began
    trail,              \* what the loop did with each document it visited
    callers             \* the sidecar calls in progress, one per caller

\* lang_eff before run_ocr assigns it (_pick_lang never returns "")
NoLang == <<>>
\* frac of a progress call that carries a message only (frac=None)
NoFrac == <<>>

ocr_vars == <<requested, installed, has_cb, hard_timeout_sec, pc, stage,
              lang_eff, runs, exc>>
cli_vars == <<child, stdout_eof, clock, start, last_out, last_frac>>

page_vars == <<attrs, derived, pass, todo, before, trail, callers>>
side_vars == <<files, doc_kind, wall, ret, page_vars>>

vars == <<ocr_vars, cli_vars, cb, side_vars>>

\* exceptions that `except Exception` catches, and the one it does not
Errors == {"RuntimeError", "TimeoutError", "ReadError", "PythonError"}
Interrupt == "Interrupt"

\* the language specs a caller passes in the model of run_ocr
ReqLangs == {<<"jpn", "+", "eng">>, <<"eng">>, <<"deu">>, <<"eng", "+", "eng">>}
HardTimeouts == {200}

IdleCli ==
    /\ child = "none" /\ stdout_eof = FALSE
    /\ clock = 0 /\ start = 0 /\ last_out = 0
    /\ last_frac = ZERO
    /\ cb = [kind |-> "none", frac |-> NoFrac]

\* no page loop runs
IdlePage ==
    /\ pass = [page |-> "none", dry_run |-> FALSE, status |-> "none", run |-> 0]
    /\ todo = <<>> /\ trail = <<>>
    /\ callers = <<>>

\* no sidecar call is made: no document, no file
IdleSide ==
    /\ files = <<>> /\ doc_kind = <<>> /\ wall = 0
    /\ ret = [op |-> "none"]
    /\ attrs = <<>> /\ derived = <<>> /\ before = <<>>
    /\ IdlePage

\* run_ocr is called with these arguments
InitOcr ==
    /\ requested \in ReqLangs
    /\ installed \in SUBSET {<<"jpn">>, ENG}
    /\ has_cb \in BOOLEAN
    /\ hard_timeout_sec \in HardTimeouts
    /\ pc = "entry" /\ stage = "none" /\ lang_eff = NoLang
    /\ runs = <<>> /\ exc = None
    /\ IdleCli
    /\ IdleSide

\* run_ocr is called with any language spec of up to MaxLen characters
InitLang ==
    /\ requested \in StringsUpTo(MaxLen)
    /\ installed \in SUBSET LangNames
    /\ has_cb \in BOOLEAN
    /\ hard_timeout_sec \in HardTimeouts
    /\ pc = "entry" /\ stage = "none" /\ lang_eff = NoLang
    /\ runs = <<>> /\ exc = None
    /\ IdleCli
    /\ IdleSide

\* no OCR job runs
IdleOcr ==
    /\ requested = ENG /\ installed = {} /\ has_cb = FALSE
    /\ hard_timeout_sec \in HardTimeouts
    /\ pc = "idle" /\ stage = "none" /\ lang_eff = NoLang
    /\ runs = <<>> /\ exc = None
    /\ IdleCli

(***************************************************************************)
(* _emit_progress(cb, msg, frac): the callback's last call after this      *)
(* one.  Nothing is called when there is no callback; what the callback    *)
(* raises is swallowed.                                                    *)
(***************************************************************************)
_emit_progress(c, kind, frac) ==
    IF has_cb THEN [kind |-> kind, frac |-> frac] ELSE c

(***************************************************************************)
(* Fallback Controller: run_ocr.                                           *)
(***************************************************************************)
SetResult(rs, r) == [rs EXCEPT ![Len(rs)].result = r]

\* a retry that does not look at the language or at what is installed
RetryAlways(le, langs) == TRUE

\* if lang_eff != "eng" and _tesseract_has_lang("eng")
RetryPermitted(le, langs) == le # ENG /\ _tesseract_has_lang(ENG, langs)

\* a fallback that narrows the language to English
CliLangEngOnly(st, le) == ENG

\* the lang argument of the _run_cli_streaming call of stage st
CliLang(st, le) == IF st = "retry" THEN ENG ELSE le

\* run_ocr up to its first backend call
RunOcrEntry ==
    /\ pc = "entry"
    /\ lang_eff' = _pick_lang(requested, installed)
    /\ IF has_cb
       THEN /\ pc' = "cli_call" /\ stage' = "first"
            /\ cb' = _emit_progress(_emit_progress(cb, "prep", ZERO),
                                    "cli_start", ZERO)
       ELSE /\ pc' = "python" /\ stage' = "none"
            /\ cb' = _emit_progress(cb, "prep", ZERO)
    /\ UNCHANGED <<requested, installed, has_cb, hard_timeout_sec, runs, exc>>
    /\ UNCHANGED <<cli_vars, side_vars>>

\* _run_python and the `except Exception as e_py` around it
RunPython ==
    /\ pc = "python"
    /\ \E r \in {"ok", "PythonError"} :
         /\ runs' = Append(runs, [backend |-> "python", lang |-> lang_eff,
                                  result |-> r])
         /\ IF r = "ok"
            THEN /\ pc' = "returned" /\ stage' = stage /\ cb' = cb
            ELSE /\ pc' = "cli_call" /\ stage' = "fallback"
                 /\ cb' = _emit_progress(cb, "py_failed", NoFrac)
    /\ UNCHANGED <<requested, installed, has_cb, hard_timeout_sec, lang_eff, exc>>
    /\ UNCHANGED <<cli_vars, side_vars>>

\* what run_ocr does when the _run_cli_streaming call of the current stage
\* ends with r ("ok", or the exception it raised); rs is runs, c the
\* callback's last call so far
CliReturns(rs, r, c) ==
    /\ runs' = SetResult(rs, r)
    /\ UNCHANGED <<requested, installed, has_cb, hard_timeout_sec, lang_eff>>
    /\ UNCHANGED side_vars
    /\ IF r = "ok"
       THEN /\ pc' = "returned" /\ exc' = None /\ stage' = stage
            /\ cb' = IF stage \in {"first", "retry"}
                     THEN _emit_progress(c, "cli_done", ONE) ELSE c
       ELSE IF r \in Errors /\ stage = "first"
       THEN IF RetryPermitted(lang_eff, installed)
            THEN /\ pc' = "cli_call" /\ exc' = None /\ stage' = "retry"
                 /\ cb' = _emit_progress(_emit_progress(c, "cli_failed", NoFrac),
                                         "cli_retry", NoFrac)
            ELSE /\ pc' = "raised" /\ exc' = r /\ stage' = stage
                 /\ cb' = _emit_progress(c, "cli_failed", NoFrac)
       ELSE /\ pc' = "raised" /\ exc' = r /\ stage' = stage
            /\ cb' = c

(***************************************************************************)
(* Process Supervisor: _run_cli_streaming.                                 *)
(***************************************************************************)
IdleSec == 180

\* a finally clause that kills nothing
FinallyNoKill(ch) == ch

\* finally: if proc.poll() is None: proc.kill()
FinallyKill(ch) == IF ch = "running" THEN "killed" ELSE ch

\* the call up to the loop: shutil.which, the command line, Popen
CliCall ==
    /\ pc = "cli_call"
    /\ LET rs == Append(runs, [backend |-> "cli",
                               lang |-> CliLang(stage, lang_eff),
                               result |-> "running"])
       IN  \E found \in BOOLEAN :
             IF found
             THEN /\ pc' = "cli_loop"
                  /\ runs' = rs
                  /\ cb' = _emit_progress(cb, "cmd", ZERO)
                  /\ child' = "running" /\ stdout_eof' = FALSE
                  /\ clock' = 0 /\ start' = 0 /\ last_out' = 0
                  /\ last_frac' = ZERO
                  /\ UNCHANGED <<requested, installed, has_cb,
                                 hard_timeout_sec, stage, lang_eff, exc>>
                  /\ UNCHANGED side_vars
             ELSE /\ CliReturns(rs, "RuntimeError", cb)
                  /\ UNCHANGED cli_vars

\* one iteration of the loop in which readline() returns line l
LoopLine(l) ==
    /\ pc = "cli_loop" /\ ~stdout_eof
    /\ last_out' = clock
    /\ LET prog == _extract_page_progress(l)
       IN  IF prog # None
           THEN LET frac == page_frac(prog[1], prog[2])
                IN  /\ last_frac' = frac
                    /\ cb' = _emit_progress(cb, "page", frac)
           ELSE /\ last_frac' = last_frac
                /\ cb' = _emit_progress(cb, "line", last_frac)
    /\ UNCHANGED <<child, stdout_eof, clock, start>>
    /\ UNCHANGED <<ocr_vars, side_vars>>

\* one iteration of the loop in which readline() returns "": the stream
\* is at end of file
LoopEof ==
    /\ pc = "cli_loop" /\ stdout_eof
    /\ LET now == clock
       IN  IF child # "running"
           THEN \* proc.poll() is not None: break, then the return code
                /\ CliReturns(runs,
                              IF child = "exit0" THEN "ok" ELSE "RuntimeError",
                              cb)
                /\ child' = FinallyKill(child)
                /\ UNCHANGED <<stdout_eof, clock, start, last_out, last_frac>>
           ELSE LET c1 == IF now - last_out > IdleSec
                          THEN _emit_progress(cb, "heartbeat", last_frac)
                          ELSE cb
                IN  IF now - start > hard_timeout_sec
                    THEN /\ CliReturns(runs, "TimeoutError", c1)
                         /\ child' = FinallyKill("killed")
                         /\ UNCHANGED <<stdout_eof, clock, start, last_out,
                                        last_frac>>
                    ELSE \* time.sleep(0.2)
                         /\ cb' = c1
                         /\ \E dt \in {0, TimeStep} :
                              /\ clock + dt <= MaxTime
                              /\ clock' = clock + dt
                         /\ UNCHANGED <<child, stdout_eof, start, last_out,
                                        last_frac>>
                         /\ UNCHANGED <<ocr_vars, side_vars>>

\* readline() raises (the bytes read do not decode)
LoopReadError ==
    /\ pc = "cli_loop" /\ ~stdout_eof
    /\ CliReturns(runs, "ReadError", cb)
    /\ child' = FinallyKill(child)
    /\ UNCHANGED <<stdout_eof, clock, start, last_out, last_frac>>

\* a BaseException (KeyboardInterrupt, the dashboard stopping the script)
\* arrives while the loop reads or calls the callback
LoopInterrupt ==
    /\ pc = "cli_loop"
    /\ CliReturns(runs, Interrupt, cb)
    /\ child' = FinallyKill(child)
    /\ UNCHANGED <<stdout_eof, clock, start, last_out, last_frac>>

(***************************************************************************)
(* The subprocess and the wall clock.                                      *)
(***************************************************************************)
\* the subprocess exits with return code 0 or not 0
ChildExits ==
    /\ pc = "cli_loop" /\ child = "running"
    /\ child' \in {"exit0", "exit1"}
    /\ UNCHANGED <<stdout_eof, clock, start, last_out, last_frac, cb>>
    /\ UNCHANGED <<ocr_vars, side_vars>>

\* the write end of the output stream is closed and the pipe is drained
StdoutCloses ==
    /\ pc = "cli_loop" /\ ~stdout_eof
    /\ stdout_eof' = TRUE
    /\ UNCHANGED <<child, clock, start, last_out, last_frac, cb>>
    /\ UNCHANGED <<ocr_vars, side_vars>>

\* time passes while readline() blocks on an open, silent stream
Tick ==
    /\ pc = "cli_loop" /\ ~stdout_eof
    /\ clock + TimeStep <= MaxTime
    /\ clock' = clock + TimeStep
    /\ UNCHANGED <<child, stdout_eof, start, last_out, last_frac, cb>>
    /\ UNCHANGED <<ocr_vars, side_vars>>

(***************************************************************************)
(* Sidecar State Store.                                                    *)
(*                                                                         *)
(* A sidecar file is absent, or holds text in one of these forms:          *)
(*   json        the text parses;  val is the value it parses to           *)
(*   smart       the text parses only after normalize_json_text;  val is   *)
(*               the value the text spells, smart quotes included          *)
(*   garbage     the text parses neither way                               *)
(*   unreadable  read_text raises (not UTF-8, no permission)               *)
(* A JSON value is a dict (a function from its keys) or a list.            *)
(***************************************************************************)
Docs == {"d1"}

States == {"unprocessed", "done", "text", "skipped", "locked", "failed"}

Absent == [form |-> "absent"]
Garbage == [form |-> "garbage"]
Unreadable == [form |-> "unreadable"]
Json(v) == [form |-> "json", val |-> v]
Smart(v) == [form |-> "smart", val |-> v]

PyNone == [t |-> "none"]
PyRaise == [t |-> "raise"]
Dict(f) == [t |-> "dict", d |-> f]
List(n) == [t |-> "list", len |-> n]
EmptyDict == [k \in {} |-> None]

IsDict(v) == v.t = "dict"

\* bool(v) of a loaded value
Truthy(v) ==
    IF v.t = "none" THEN FALSE
    ELSE IF v.t = "dict" THEN DOMAIN v.d # {}
    ELSE v.len > 0

\* d[k] = v
DictSet(f, k, v) == [x \in DOMAIN f \cup {k} |-> IF x = k THEN v ELSE f[x]]

\* normalize_json_text on a string value: the smart apostrophe becomes '
NormalizeValue(k, v) == IF k = "note" /\ v = "it_rsquo_s" THEN "it_apos_s" ELSE v

\* normalize_json_text seen through the parse that follows it
normalize_json_text(v) ==
    IF IsDict(v) THEN Dict([k \in DOMAIN v.d |-> NormalizeValue(k, v.d[k])])
    ELSE v

\* load_sidecar_dict: the value read, PyNone for None, PyRaise when
\* read_text raises
load_sidecar_dict(file) ==
    IF file.form = "absent" THEN PyNone
    ELSE IF file.form = "unreadable" THEN PyRaise
    ELSE IF file.form = "json" THEN file.val
    ELSE IF file.form = "smart" THEN normalize_json_text(file.val)
    ELSE PyNone

\* a caller reads a document's sidecar: load_sidecar_dict(sidecar_path_for(p))
LoadSidecar(doc) ==
    /\ pc = "idle"
    /\ LET loaded == load_sidecar_dict(files[doc])
       IN  ret' = [op |-> "load_sidecar_dict", doc |-> doc, arg |-> None,
                   flag |-> FALSE, changed |-> FALSE,
                   status |-> IF loaded = PyRaise THEN "raised" ELSE "returned",
                   value |-> loaded]
    /\ UNCHANGED <<files, doc_kind, wall>>
    /\ UNCHANGED <<ocr_vars, cli_vars, cb, page_vars>>

\* datetime.now(tz=JST).isoformat() of lib/pdf/sidecar.py (+09:00)
NowJst == <<wall, "+09:00">>
\* datetime.now(tz=JST).isoformat() of the classification page (+00:00)
NowUtc == <<wall, "+00:00">>

\* the record both creators write
Payload(ts, ocr_state) ==
    [k \in {"type", "created_at", "ocr"} |->
        IF k = "type" THEN "image_pdf"
        ELSE IF k = "created_at" THEN ts ELSE ocr_state]

\* an update that writes the fixed structure anew
MergedRecordFresh(loaded, new_state, ts) == Payload(ts, new_state)

\* update_sidecar_ocr's data after its three `if`s; loaded is what
\* load_sidecar_dict returned
MergedRecord(loaded, new_state, ts) ==
    LET d0 == IF Truthy(loaded) /\ IsDict(loaded) THEN loaded.d ELSE EmptyDict
        d1 == IF "type" \notin DOMAIN d0
              THEN DictSet(d0, "type", "image_pdf") ELSE d0
        d2 == IF "created_at" \notin DOMAIN d1
              THEN DictSet(d1, "created_at", ts) ELSE d1
    IN  DictSet(d2, "ocr", new_state)

\* update_sidecar_ocr(pdf_path, new_state)
UpdateSidecarOcr(doc, new_state) ==
    /\ pc = "idle"
    /\ LET loaded == load_sidecar_dict(files[doc])
       IN  IF loaded = PyRaise
           THEN /\ ret' = [op |-> "update_sidecar_ocr", doc |-> doc,
                           arg |-> new_state, flag |-> FALSE,
                           changed |-> FALSE, status |-> "raised"]
                /\ files' = files
           ELSE LET data == MergedRecord(loaded, new_state, NowJst)
                IN  \E wrote \in BOOLEAN :
                      IF wrote
                      THEN /\ files' = [files EXCEPT ![doc] = Json(Dict(data))]
                           /\ ret' = [op |-> "update_sidecar_ocr", doc |-> doc,
                                      arg |-> new_state, flag |-> FALSE,
                                      changed |-> TRUE,
                                      status |-> IF "ocr" \notin DOMAIN data
                                                 THEN "created" ELSE "updated"]
                      ELSE /\ files' = files
                           /\ ret' = [op |-> "update_sidecar_ocr", doc |-> doc,
                                      arg |-> new_state, flag |-> FALSE,
                                      changed |-> FALSE, status |-> "raised"]
    /\ UNCHANGED <<doc_kind, wall>>
    /\ UNCHANGED <<ocr_vars, cli_vars, cb, page_vars>>

\* a creator that never finds the file in its way
KeepsExistingNever(exists, overwrite) == FALSE

\* if sc.exists() and not overwrite
KeepsExisting(exists, overwrite) == exists /\ ~overwrite

\* ensure_sidecar(pdf_path, ocr_state, overwrite=...)
EnsureSidecar(doc, ocr_state, overwrite) ==
    /\ pc = "idle"
    /\ IF KeepsExisting(files[doc] # Absent, overwrite)
       THEN /\ files' = files
            /\ ret' = [op |-> "ensure_sidecar", doc |-> doc, arg |-> ocr_state,
                       flag |-> overwrite, changed |-> FALSE,
                       status |-> "exists"]
       ELSE \E wrote \in BOOLEAN :
              IF wrote
              THEN /\ files' = [files EXCEPT
                                  ![doc] = Json(Dict(Payload(NowJst, ocr_state)))]
                   /\ ret' = [op |-> "ensure_sidecar", doc |-> doc,
                              arg |-> ocr_state, flag |-> overwrite,
                              changed |-> TRUE, status |-> "created"]
              ELSE /\ files' = files
                   /\ ret' = [op |-> "ensure_sidecar", doc |-> doc,
                              arg |-> ocr_state, flag |-> overwrite,
                              changed |-> FALSE, status |-> "raised"]
    /\ UNCHANGED <<doc_kind, wall>>
    /\ UNCHANGED <<ocr_vars, cli_vars, cb, page_vars>>

\* if sc_path.exists() and not force
SkipsExisting(exists, force) == exists /\ ~force

\* write_sidecar_if_needed(pdf_path, ocr_state, force=...) of the
\* classification page
WriteSidecarIfNeeded(doc, ocr_state, force) ==
    /\ pc = "idle"
    /\ LET result(created, status) ==
               [op |-> "write_sidecar_if_needed", doc |-> doc,
                arg |-> ocr_state, flag |-> force, changed |-> created,
                status |-> status]
       IN  IF doc_kind[doc] = "error"
           THEN /\ files' = files /\ ret' = result(FALSE, "info_failed")
           ELSE IF doc_kind[doc] # "image"
           THEN /\ files' = files /\ ret' = result(FALSE, "not_image")
           ELSE IF SkipsExisting(files[doc] # Absent, force)
           THEN /\ files' = files /\ ret' = result(FALSE, "exists")
           ELSE \E wrote \in BOOLEAN :
                  IF wrote
                  THEN /\ files' = [files EXCEPT
                                      ![doc] = Json(Dict(Payload(NowUtc, ocr_state)))]
                       /\ ret' = result(TRUE, None)
                  ELSE /\ files' = files
                       /\ ret' = result(FALSE, "write_failed")
    /\ UNCHANGED <<doc_kind, wall>>
    /\ UNCHANGED <<ocr_vars, cli_vars, cb, page_vars>>

\* read_ocr_state_for_pdf(pdf_path): the 'ocr' value of a record whose 'type'
\* is "image_pdf", None otherwise; "raised" when load_sidecar_dict raises
read_ocr_state_for_pdf(file) ==
    LET data == load_sidecar_dict(file)
    IN  IF data = PyRaise THEN "raised"
        ELSE IF /\ IsDict(data)
                /\ "type" \in DOMAIN data.d
                /\ data.d["type"] = "image_pdf"
        THEN IF "ocr" \in DOMAIN data.d THEN data.d["ocr"] ELSE None
        ELSE None

\* a list that takes every document for an unprocessed one
get_sidecar_state_any(file) == "unprocessed"

\* get_sidecar_state(pdf_path) of the classification page: json.loads of the
\* text as it is, data.get("ocr"), None on any exception
get_sidecar_state(file) ==
    IF file.form = "json" /\ IsDict(file.val)
    THEN IF "ocr" \in DOMAIN file.val.d THEN file.val.d["ocr"] ELSE None
    ELSE None

\* update_sidecar_state(pdf_path, new_state) on a file: what it returns and
\* the file it leaves; wrote is whether write_text went through
update_sidecar_state(file, new_state, wrote) ==
    IF file = Absent THEN [ok |-> FALSE, file |-> file]
    ELSE IF file.form = "json" /\ IsDict(file.val) /\ wrote
    THEN [ok |-> TRUE,
          file |-> Json(Dict(DictSet(file.val.d, "ocr", new_state)))]
    ELSE [ok |-> FALSE, file |-> file]

\* a caller updates the state of a document's sidecar
UpdateSidecarState(doc, new_state) ==
    /\ pc = "idle"
    /\ \E wrote \in BOOLEAN :
         LET u == update_sidecar_state(files[doc], new_state, wrote)
         IN  /\ files' = [files EXCEPT ![doc] = u.file]
             /\ ret' = [op |-> "update_sidecar_state", doc |-> doc,
                        arg |-> new_state, flag |-> FALSE, changed |-> u.ok,
                        status |-> IF u.ok THEN "updated" ELSE "failed"]
    /\ UNCHANGED <<doc_kind, wall>>
    /\ UNCHANGED <<ocr_vars, cli_vars, cb, page_vars>>

\* the override buttons of the classification page: the page lists the
\* documents whose sidecar says 'unprocessed', the operator has checked the
\* boxes of `checked`, and the button sets the listed and checked ones to
\* new_state ("text" or "skipped")
OverrideButton(new_state, checked) ==
    /\ pc = "idle"
    /\ LET unprocessed_pdfs ==
               {d \in Docs : get_sidecar_state(files[d]) = "unprocessed"}
           to_act == checked \cap unprocessed_pdfs
       IN  \E wrote \in [Docs -> BOOLEAN] :
             LET u == [d \in Docs |->
                         update_sidecar_state(files[d], new_state, wrote[d])]
             IN  /\ files' = [d \in Docs |->
                                IF d \in to_act THEN u[d].file ELSE files[d]]
                 /\ ret' = [op |-> "override", doc |-> None,
                            arg |-> new_state, flag |-> FALSE,
                            changed |-> \E d \in to_act : u[d].ok,
                            status |-> IF to_act = {} THEN "none_selected"
                                       ELSE "done",
                            value |-> {d \in to_act : u[d].ok}]
    /\ UNCHANGED <<doc_kind, wall>>
    /\ UNCHANGED <<ocr_vars, cli_vars, cb, page_vars>>

\* datetime.now(tz=JST).isoformat() of the skip-sidecar page (+09:00)
NowSkipPage == <<wall, "+09:00">>

\* write_sidecar_skipped(pdf_path, overwrite=...) of the skip-sidecar page
WriteSidecarSkipped(doc, overwrite) ==
    /\ pc = "idle"
    /\ LET payload == Payload(NowSkipPage, "skipped")
           file == files[doc]
           result(ok, status) ==
               [op |-> "write_sidecar_skipped", doc |-> doc, arg |-> "skipped",
                flag |-> overwrite, changed |-> ok, status |-> status]
           data == IF file.form = "json" THEN file.val ELSE Dict(EmptyDict)
           merged == [k \in DOMAIN data.d \cup DOMAIN payload |->
                         IF k \in DOMAIN payload THEN payload[k]
                         ELSE data.d[k]]
       IN  IF file # Absent /\ ~overwrite
           THEN /\ files' = files /\ ret' = result(FALSE, "exists")
           ELSE IF file # Absent /\ ~IsDict(data)
           THEN /\ files' = files /\ ret' = result(FALSE, "write_failed")
           ELSE \E wrote \in BOOLEAN :
                  IF ~wrote
                  THEN /\ files' = files
                       /\ ret' = result(FALSE, "write_failed")
                  ELSE IF file # Absent
                  THEN /\ files' = [files EXCEPT ![doc] = Json(Dict(merged))]
                       /\ ret' = result(TRUE, "updated")
                  ELSE /\ files' = [files EXCEPT ![doc] = Json(Dict(payload))]
                       /\ ret' = result(TRUE, "created")
    /\ UNCHANGED <<doc_kind, wall>>
    /\ UNCHANGED <<ocr_vars, cli_vars, cb, page_vars>>

\* the calendar clock advances between calls
WallTick ==
    /\ pc = "idle"
    /\ wall < MaxWall
    /\ wall' = wall + 1
    /\ UNCHANGED <<files, doc_kind, ret>>
    /\ UNCHANGED <<ocr_vars, cli_vars, cb, page_vars>>

\* the sidecar files found on disk when the dashboard starts: written by
\* this program, or edited by hand or by another collaborator
InitFiles ==
    {Absent, Garbage, Unreadable,
     Json(List(0)), Json(List(1)), Json(Dict(EmptyDict)),
     Json(Dict(Payload(<<0, "+09:00">>, "unprocessed"))),
     Json(Dict(Payload(<<0, "+00:00">>, "skipped"))),
     Json(Dict(DictSet(Payload(<<0, "+09:00">>, "failed"), "note", "it_rsquo_s"))),
     Json(Dict([k \in {"ocr", "note"} |-> IF k = "ocr" THEN "text" ELSE "memo"])),
     Smart(Dict(DictSet(Payload(<<0, "+09:00">>, "unprocessed"), "note", "it_rsquo_s"))),
     Json(Dict(DictSet(Payload(<<0, "+09:00">>, "done"), "type", "text_pdf")))}

InitSidecar ==
    /\ IdleOcr
    /\ files \in [Docs -> InitFiles]
    /\ doc_kind \in [Docs -> {"image", "text", "error"}]
    /\ wall = 0
    /\ ret = [op |-> "none"]
    /\ attrs = <<>> /\ derived = <<>> /\ before = <<>>
    /\ IdlePage

(***************************************************************************)
(* Document State Machine: the classification pass of                      *)
(* pages/25_PDF整理（処理判定）.py and the OCR batch loop of pages/40_OCR処理.py.  *)
(*                                                                         *)
(* The selected folders hold the documents of Folder, in the order         *)
(* list_pdfs returns them.  A document has a name suffix ("_ocr", "_skip"  *)
(* or neither), a lock flag (what is_pdf_locked says), a kind (what        *)
(* quick_pdf_info says), a derived *_ocr.pdf or none, and a sidecar file.  *)
(* A loop visits one document per step; trail keeps, for each document     *)
(* visited, what the loop did with it.  run_ocr is taken by its outcome:   *)
(* it returns, raises an exception of Errors, or is interrupted.           *)
(***************************************************************************)
Folder == <<"a", "b">>

FolderDocs == {Folder[i] : i \in DOMAIN Folder}

Suffixes == {"", "_ocr", "_skip"}

Kinds == {"image", "text", "error"}

\* the sidecar files the pages can meet
PageFiles ==
    {Absent, Unreadable, Garbage}
        \cup {Json(Dict(Payload(<<0, "+09:00">>, s))) : s \in States}

\* the documents a folder can hold
Profiles ==
    [suffix : Suffixes, locked : BOOLEAN, kind : Kinds, derived : BOOLEAN,
     file : PageFiles]

\* the documents that follow the first one in the folder of the model
LaterProfiles ==
    {p \in Profiles :
        /\ p.suffix # "_ocr" /\ p.kind = "image" /\ ~p.derived
        /\ p.file \in {Absent, Unreadable,
                       Json(Dict(Payload(<<0, "+09:00">>, "unprocessed")))}}

\* a page that takes no name for an OCR output name
is_ocr_name_never(doc) == FALSE

\* p.suffix.lower() == ".pdf" and p.stem.endswith("_ocr")
is_ocr_name(doc) == attrs[doc].suffix = "_ocr"

\* a page that takes no name for a skip name
is_skip_name_never(doc) == FALSE

\* p.suffix.lower() == ".pdf" and p.stem.endswith("_skip")
is_skip_name(doc) == attrs[doc].suffix = "_skip"

\* a lock probe that never reports a lock
is_pdf_locked_never(doc) == FALSE

\* is_pdf_locked(p): needs_pass of the opened document, False on failure
is_pdf_locked(doc) == attrs[doc].locked

\* get_sidecar_ocr_state(p): the 'ocr' value of the sidecar, None without
\* a readable record
get_sidecar_ocr_state(file) ==
    IF file = Absent THEN None
    ELSE LET d == load_sidecar_dict(file)
         IN  IF d = PyRaise THEN None
             ELSE IF IsDict(d) /\ "ocr" \in DOMAIN d.d THEN d.d["ocr"]
             ELSE None

\* a loop that does not look at the sidecar
SidecarSaysSkippedNever(file) == FALSE

\* the batch loop's test for sidecar 'skipped'; an exception of the read
\* is passed over
SidecarSaysSkipped(file) ==
    /\ file # Absent
    /\ LET d == load_sidecar_dict(file)
       IN  /\ d # PyRaise
           /\ IsDict(d)
           /\ "ocr" \in DOMAIN d.d
           /\ d.d["ocr"] = "skipped"

\* update_sidecar_ocr(p, new_state) on a file: whether it raised and the
\* file it leaves; wrote is whether write_text went through
update_sidecar_ocr(file, new_state, ts, wrote) ==
    LET loaded == load_sidecar_dict(file)
    IN  IF loaded = PyRaise \/ ~wrote
        THEN [raised |-> TRUE, file |-> file]
        ELSE [raised |-> FALSE,
              file |-> Json(Dict(MergedRecord(loaded, new_state, ts)))]

\* a classification that looks at the document's own name only
ocr_state_by_name_only(doc) ==
    IF is_ocr_name(doc) THEN "done" ELSE "unprocessed"

\* ocr_state_for_this of the classification pass
ocr_state_for_this(doc) ==
    IF is_ocr_name(doc) THEN "done"
    ELSE IF derived[doc] THEN "done" ELSE "unprocessed"

\* a loop that never finds the derived file
dst_exists_never(doc) == FALSE

\* dst = dest_ocr_path(p); dst.exists()
dst_exists(doc) == derived[doc]

\* a handler that catches nothing
CaughtNever(e) == FALSE

\* except Exception
Caught(e) == e \in Errors

\* a batch that records every attempt as done
RecordedStateDone(outcome) == "done"

\* the state the batch loop records after run_ocr
RecordedState(outcome) == IF outcome = "returned" THEN "done" ELSE "failed"

\* what run_ocr can do in the batch
RunOcrOutcomes == {"returned", "RuntimeError", "TimeoutError", Interrupt}

Entry(doc, branch, ocr, writes, post, uncaught) ==
    [doc |-> doc, branch |-> branch, ocr |-> ocr, writes |-> writes,
     pre |-> files[doc], post |-> post, uncaught |-> uncaught]

Write(state, u) == [state |-> state, raised |-> u.raised]

InitPages ==
    /\ IdleOcr
    /\ \E first \in Profiles, later \in LaterProfiles :
         LET prof == [d \in FolderDocs |-> IF d = Folder[1] THEN first ELSE later]
         IN  /\ attrs = [d \in FolderDocs |->
                            [suffix |-> prof[d].suffix, locked |-> prof[d].locked]]
             /\ doc_kind = [d \in FolderDocs |-> prof[d].kind]
             /\ derived = [d \in FolderDocs |-> prof[d].derived]
             /\ files = [d \in FolderDocs |-> prof[d].file]
    /\ before = files
    /\ wall = 0
    /\ ret = [op |-> "none"]
    /\ IdlePage

\* the loop moves past the document it visited
Advance(page, dry_run, entry) ==
    /\ trail' = Append(trail, entry)
    /\ todo' = Tail(todo)
    /\ pass' = [page |-> page, dry_run |-> dry_run, run |-> pass.run,
                status |-> IF entry.uncaught
                           THEN (IF entry.ocr = Interrupt THEN "interrupted"
                                 ELSE "raised")
                           ELSE IF Tail(todo) = <<>> THEN "complete"
                           ELSE "running"]

\* "処理を始める" of the classification page: collect the targets
StartClassify(dry_run) ==
    /\ pc = "idle" /\ pass.page = "none"
    /\ LET targets == SelectSeq(Folder, LAMBDA d : ~is_skip_name(d))
       IN  /\ todo' = targets
           /\ pass' = [page |-> "classify", dry_run |-> dry_run, run |-> 1,
                       status |-> IF targets = <<>> THEN "complete"
                                  ELSE "running"]
    /\ before' = files
    /\ trail' = <<>>
    /\ UNCHANGED <<files, doc_kind, wall, ret, attrs, derived, callers>>
    /\ UNCHANGED <<ocr_vars, cli_vars, cb>>

\* one iteration of the sidecar generation loop
ClassifyStep ==
    /\ pass.page = "classify" /\ pass.status = "running"
    /\ LET d == Head(todo)
           state == ocr_state_for_this(d)
           skip(branch) == Entry(d, branch, None, <<>>, files[d], FALSE)
       IN  \E wrote \in BOOLEAN :
             LET entry ==
                   IF doc_kind[d] = "error" THEN skip("error")
                   ELSE IF doc_kind[d] # "image" THEN skip("not_image")
                   ELSE IF files[d] # Absent THEN skip("exists")
                   ELSE IF pass.dry_run THEN skip("candidate")
                   ELSE IF wrote
                   THEN Entry(d, "created", None,
                              <<[state |-> state, raised |-> FALSE]>>,
                              Json(Dict(Payload(NowUtc, state))), FALSE)
                   ELSE Entry(d, "write_failed", None,
                              <<[state |-> state, raised |-> TRUE]>>,
                              files[d], FALSE)
             IN  /\ files' = [files EXCEPT ![d] = entry.post]
                 /\ Advance("classify", pass.dry_run, entry)
    /\ UNCHANGED <<doc_kind, wall, ret, attrs, derived, before, callers>>
    /\ UNCHANGED <<ocr_vars, cli_vars, cb>>

\* "選択サブフォルダをまとめてOCR実行" of the OCR page
StartBatch ==
    /\ pc = "idle"
    /\ \/ pass.page = "none"
       \/ /\ pass.page = "batch" /\ pass.status # "running"
          /\ pass.run < MaxRuns
    /\ todo' = Folder
    /\ pass' = [page |-> "batch", dry_run |-> FALSE, status |-> "running",
                run |-> pass.run + 1]
    /\ before' = files
    /\ trail' = <<>>
    /\ UNCHANGED <<files, doc_kind, wall, ret, attrs, derived, callers>>
    /\ UNCHANGED <<ocr_vars, cli_vars, cb>>

\* one iteration of the OCR batch loop on document d: run_ocr, if it is
\* called, ends as outcome; w1 and w2 say whether the first and the second
\* sidecar write of the iteration go through
BatchIteration(d, outcome, w1, w2) ==
    LET skip(branch) == Entry(d, branch, None, <<>>, files[d], FALSE)
    IN  IF is_ocr_name(d) THEN skip("ocr_name")
        ELSE IF is_skip_name(d) THEN skip("skip_name")
        ELSE IF SidecarSaysSkipped(files[d]) THEN skip("sidecar_skipped")
        ELSE IF is_pdf_locked(d)
        THEN LET u == update_sidecar_ocr(files[d], "locked", NowJst, w1)
             IN  Entry(d, "locked", None, <<Write("locked", u)>>, u.file, FALSE)
        ELSE IF doc_kind[d] = "error" THEN skip("unknown")
        ELSE IF doc_kind[d] # "image" THEN skip("not_image")
        ELSE IF dst_exists(d) THEN skip("exists")
        ELSE IF outcome = "returned"
        THEN LET u1 == update_sidecar_ocr(files[d], RecordedState(outcome),
                                          NowJst, w1)
                 u2 == update_sidecar_ocr(files[d], "failed", NowJst, w2)
             IN  IF ~u1.raised
                 THEN Entry(d, "ocr", outcome,
                            <<Write(RecordedState(outcome), u1)>>, u1.file, FALSE)
                 ELSE Entry(d, "ocr", outcome,
                            <<Write(RecordedState(outcome), u1),
                              Write("failed", u2)>>,
                            u2.file, u2.raised)
        ELSE IF Caught(outcome)
        THEN LET u == update_sidecar_ocr(files[d], RecordedState(outcome),
                                         NowJst, w1)
             IN  Entry(d, "ocr", outcome, <<Write(RecordedState(outcome), u)>>,
                       u.file, u.raised)
        ELSE Entry(d, "ocr", outcome, <<>>, files[d], TRUE)

BatchStep ==
    /\ pass.page = "batch" /\ pass.status = "running"
    /\ LET d == Head(todo)
       IN  \E outcome \in RunOcrOutcomes, w1 \in BOOLEAN, w2 \in BOOLEAN :
             LET entry == BatchIteration(d, outcome, w1, w2)
             IN  /\ files' = [files EXCEPT ![d] = entry.post]
                 /\ derived' = [derived EXCEPT
                                  ![d] = derived[d] \/ entry.ocr = "returned"]
                 /\ Advance("batch", FALSE, entry)
    /\ UNCHANGED <<doc_kind, wall, ret, attrs, before, callers>>
    /\ UNCHANGED <<ocr_vars, cli_vars, cb>>

(***************************************************************************)
(* Specifications.                                                         *)
(***************************************************************************)
(***************************************************************************)
(* Two callers on one sidecar file.                                        *)
(*                                                                         *)
(* Nothing locks the file.  A call is a read of the file (or a test that   *)
(* it exists) followed by write_text, and write_text is open(path, "w"),   *)
(* which empties the file, followed by the write of the text at offset 0   *)
(* when the file object is closed.  Another caller's steps can fall        *)
(* between any two of these.                                               *)
(***************************************************************************)
Callers == {1, 2}

RaceOps == {"ensure_sidecar", "update_sidecar_ocr", "update_sidecar_state"}

\* the file just opened for writing: it exists and holds no text
Empty == [form |-> "empty"]

\* the states the two callers ask for
RaceArgs == <<{"unprocessed", "done"}, {"text", "skipped"}>>

\* len(s) of a state string
StrLen(s) ==
    CASE s = "unprocessed" -> 11
      [] s = "skipped" -> 7
      [] s \in {"locked", "failed"} -> 6
      [] OTHER -> 4

\* the length of the text of a file; the records of the two callers have
\* the same keys and differ in length by the state string only
Size(file) ==
    IF file.form = "json" /\ IsDict(file.val) /\ "ocr" \in DOMAIN file.val.d
    THEN StrLen(file.val.d["ocr"])
    ELSE 0

\* the file after text is written at offset 0 of a file that holds file:
\* what lies beyond the text written stays
Overlay(file, text) ==
    IF Size(text) >= Size(file) THEN text ELSE Garbage

InitRace ==
    /\ IdleOcr
    /\ files \in [Docs -> {Absent,
                           Json(Dict(Payload(<<0, "+09:00">>, "unprocessed")))}]
    /\ doc_kind = [d \in Docs |-> "image"]
    /\ wall = 0
    /\ ret = [op |-> "none"]
    /\ attrs = <<>> /\ derived = <<>> /\ before = files
    /\ pass = [page |-> "none", dry_run |-> FALSE, status |-> "none", run |-> 0]
    /\ todo = <<>> /\ trail = <<>>
    /\ \E op \in [Callers -> RaceOps],
          arg \in [Callers -> UNION {RaceArgs[c] : c \in Callers}] :
         /\ \A c \in Callers : arg[c] \in RaceArgs[c]
         /\ callers = [c \in Callers |->
                          [op |-> op[c], doc |-> "d1", arg |-> arg[c],
                           pc |-> "start", data |-> EmptyDict,
                           status |-> None, wseq |-> 0]]

\* the number of writes that have landed
Writes == Cardinality({c \in DOMAIN callers : callers[c].wseq > 0})

RaceFrame ==
    /\ UNCHANGED <<doc_kind, wall, ret, attrs, derived, pass, todo, before,
                   trail>>
    /\ UNCHANGED <<ocr_vars, cli_vars, cb>>

\* ensure_sidecar(pdf_path, ocr_state, overwrite=False) up to write_text
EnsureCheck(c) ==
    /\ callers[c].pc = "start" /\ callers[c].op = "ensure_sidecar"
    /\ LET me == callers[c]
       IN  IF KeepsExisting(files[me.doc] # Absent, FALSE)
           THEN callers' = [callers EXCEPT ![c].pc = "done",
                                           ![c].status = "exists"]
           ELSE callers' = [callers EXCEPT
                              ![c].pc = "open",
                              ![c].data = Payload(NowJst, me.arg)]
    /\ files' = files
    /\ RaceFrame

\* update_sidecar_ocr(pdf_path, new_state) up to write_text
OcrRead(c) ==
    /\ callers[c].pc = "start" /\ callers[c].op = "update_sidecar_ocr"
    /\ LET me == callers[c]
           loaded == load_sidecar_dict(files[me.doc])
       IN  callers' = [callers EXCEPT
                         ![c].pc = "open",
                         ![c].data = MergedRecord(loaded, me.arg, NowJst)]
    /\ files' = files
    /\ RaceFrame

\* update_sidecar_state(pdf_path, new_state) up to write_text
StateRead(c) ==
    /\ callers[c].pc = "start" /\ callers[c].op = "update_sidecar_state"
    /\ LET me == callers[c]
           u == update_sidecar_state(files[me.doc], me.arg, TRUE)
       IN  IF files[me.doc] = Absent
           THEN callers' = [callers EXCEPT ![c].pc = "done",
                                           ![c].status = "False"]
           ELSE IF ~u.ok
           THEN \* json.loads raised: st.error, return False
                callers' = [callers EXCEPT ![c].pc = "done",
                                           ![c].status = "error"]
           ELSE callers' = [callers EXCEPT ![c].pc = "open",
                                           ![c].data = u.file.val.d]
    /\ files' = files
    /\ RaceFrame

\* write_text opens the file for writing
WriteOpen(c) ==
    /\ callers[c].pc = "open"
    /\ files' = [files EXCEPT ![callers[c].doc] = Empty]
    /\ callers' = [callers EXCEPT ![c].pc = "write"]
    /\ RaceFrame

\* write_text writes the text and closes the file; the call returns
WriteClose(c) ==
    /\ callers[c].pc = "write"
    /\ LET me == callers[c]
       IN  /\ files' = [files EXCEPT
                          ![me.doc] = Overlay(files[me.doc], Json(Dict(me.data)))]
           /\ callers' = [callers EXCEPT
                             ![c].pc = "done",
                             ![c].wseq = Writes + 1,
                             ![c].status =
                                 IF me.op = "ensure_sidecar" THEN "created"
                                 ELSE IF me.op = "update_sidecar_ocr"
                                 THEN "updated" ELSE "True"]
    /\ RaceFrame

NextRace ==
    \/ \E c \in Callers : EnsureCheck(c)
    \/ \E c \in Callers : OcrRead(c)
    \/ \E c \in Callers : StateRead(c)
    \/ \E c \in Callers : WriteOpen(c)
    \/ \E c \in Callers : WriteClose(c)

\* two calls on the sidecar of one document, interleaved in any way
SpecRace == InitRace /\ [][NextRace]_vars

NextOcr ==
    \/ RunOcrEntry
    \/ RunPython
    \/ CliCall
    \/ \E l \in Lines : LoopLine(l)
    \/ LoopEof
    \/ LoopReadError
    \/ LoopInterrupt
    \/ ChildExits
    \/ StdoutCloses
    \/ Tick

\* one OCR job: run_ocr with its subprocess and the wall clock
SpecOcr == InitOcr /\ [][NextOcr]_vars

\* the same, where a loop iteration that can run does run
SpecOcrFair == SpecOcr /\ WF_vars(LoopEof)

\* _pick_lang as run_ocr applies it, over every short language spec
SpecLang == InitLang /\ [][RunOcrEntry]_vars

NextSidecar ==
    \/ \E d \in Docs, s \in States : UpdateSidecarOcr(d, s)
    \/ \E d \in Docs, s \in States, o \in BOOLEAN : EnsureSidecar(d, s, o)
    \/ \E d \in Docs, s \in States, f \in BOOLEAN : WriteSidecarIfNeeded(d, s, f)
    \/ \E d \in Docs : LoadSidecar(d)
    \/ \E d \in Docs, s \in States : UpdateSidecarState(d, s)
    \/ \E s \in {"text", "skipped"}, checked \in SUBSET Docs :
           OverrideButton(s, checked)
    \/ \E d \in Docs, o \in BOOLEAN : WriteSidecarSkipped(d, o)
    \/ WallTick

\* the sidecar store under any sequence of calls
SpecSidecar == InitSidecar /\ [][NextSidecar]_vars

NextPages ==
    \/ \E dry_run \in BOOLEAN : StartClassify(dry_run)
    \/ ClassifyStep
    \/ StartBatch
    \/ BatchStep

\* one run of the classification pass or of the OCR batch loop over the
\* documents of the selected folders
SpecPages == InitPages /\ [][NextPages]_vars

(***************************************************************************)
(* Properties of the Fallback Controller.                                  *)
(***************************************************************************)
Terminal == pc \in {"returned", "raised"}

\* every token of a resolved language spec is "eng"
EnglishOnly(le) ==
    \A i \in 1..Len(SplitPlus(le)) : SplitPlus(le)[i] = ENG

C3_TimeoutFatal ==
    \A i \in DOMAIN runs :
        runs[i].result = "TimeoutError" =>
            /\ i = Len(runs)
            /\ (Terminal => (pc = "raised" /\ exc = "TimeoutError"))

(***************************************************************************)
(* Properties of the Process Supervisor.                                   *)
(***************************************************************************)
\* the subprocess has not exited and the hard timeout has elapsed
Overdue ==
    pc = "cli_loop" /\ child = "running" /\ clock - start > hard_timeout_sec

\* C4: a subprocess that has not exited when the hard timeout has elapsed
\* is eventually not running any more (killed by the supervisor, which then
\* raises TimeoutError, unless it exits or the job is interrupted first).
C4_TimeoutEnforced == Overdue ~> (child # "running")

\* C5: whenever _run_cli_streaming is not in its loop (it has returned or
\* raised, or was never called), no subprocess is running.
C5_ChildGoneOnExit == (child = "running") => (pc = "cli_loop")

\* a read error ended the call while the subprocess ran: it was killed
C5_Witness ==
    /\ pc = "raised" /\ exc = "ReadError" /\ child = "killed"
    /\ runs[Len(runs)].result = "ReadError"

\* C6: inside one CLI run, each fraction passed to the callback is at
\* least the one passed before it.
C6_Monotone ==
    [][(has_cb /\ pc = "cli_loop" /\ pc' = "cli_loop")
          => FracLeq(cb.frac, cb'.frac)]_vars

BackendKinds == {"cmd", "page", "line", "heartbeat"}

InUnit(f) == FracLeq(ZERO, f) /\ FracLeq(f, ONE)

\* the captures of a line that have a total above 0
Markers(l) == SelectSeq(l, LAMBDA p : p[2] > 0)

\* C7: every fraction _run_cli_streaming passes to the callback is in
\* [0, 1]; a line with a marker (cur, total), total > 0, reports cur/total,
\* or 1 when cur > total; a line whose markers all have total 0 reports
\* the last fraction again, like a line with no marker.
C7_FractionInUnit ==
    [][/\ (cb'.kind \in BackendKinds => InUnit(cb'.frac))
       /\ \A l \in Lines :
            (has_cb /\ LoopLine(l)) =>
                IF Markers(l) # <<>>
                THEN LET cur == Markers(l)[1][1]
                         total == Markers(l)[1][2]
                     IN  /\ cb'.kind = "page"
                         /\ IF cur > total THEN cb'.frac = ONE
                            ELSE cb'.frac[1] * total = cur * cb'.frac[2]
                ELSE /\ cb'.kind = "line"
                     /\ cb'.frac = cb.frac
                     /\ last_frac' = last_frac]_vars

\* a page marker was reported as a proper fraction
C7_Witness ==
    has_cb /\ pc = "cli_loop" /\ cb.kind = "page" /\ cb.frac = <<1, 2>>

(***************************************************************************)
(* Properties of the Language Availability Resolver.                       *)
(***************************************************************************)
\* the requested tokens: the pieces between "+", blanks around them
\* removed, empty pieces dropped
ReqTokens(req) ==
    LET pieces == SplitPlus(req)
    IN  SelectSeq([i \in 1..Len(pieces) |-> Strip(pieces[i])],
                  LAMBDA p : p # <<>>)

\* C8: the resolved spec, split at "+", is the sequence of requested tokens
\* that are installed, in their order; when none is installed it is "eng"
\* if "eng" is installed, else the first requested token ("eng" when the
\* request has no token at all).
C8_LangNarrowing ==
    (pc # "entry") =>
        LET T == ReqTokens(requested)
            inst == SelectSeq(T, LAMBDA t : t \in installed)
        IN  IF inst # <<>> THEN SplitPlus(lang_eff) = inst
            ELSE IF ENG \in installed THEN lang_eff = ENG
            ELSE IF T # <<>> THEN lang_eff = T[1]
            ELSE lang_eff = ENG

\* two tokens were requested, only the second is installed, and it is kept
C8_Witness ==
    /\ pc # "entry"
    /\ ReqTokens(requested) = <<<<"jpn">>, <<"deu">>>>
    /\ installed = {<<"deu">>, ENG}
    /\ lang_eff = <<"deu">>

C10_NoOverwrite ==
    [][\A d \in Docs, s \in States :
          /\ (EnsureSidecar(d, s, FALSE) /\ files[d] # Absent) =>
                (files'[d] = files[d] /\ ~ret'.changed
                 /\ ret'.status = "exists")
          /\ (WriteSidecarIfNeeded(d, s, FALSE) /\ files[d] # Absent) =>
                (files'[d] = files[d] /\ ~ret'.changed
                 /\ ret'.status \in {"exists", "not_image", "info_failed"})]_vars

\* ensure_sidecar found a record in state failed and left it
C10_Witness ==
    /\ ret.op = "ensure_sidecar" /\ ~ret.flag /\ ret.status = "exists"
    /\ ret.arg = "unprocessed"
    /\ files[ret.doc].form = "json" /\ IsDict(files[ret.doc].val)
    /\ "ocr" \in DOMAIN files[ret.doc].val.d
    /\ files[ret.doc].val.d["ocr"] = "failed"


\* C11: update_sidecar_ocr reports 'created' when the document had no
\* sidecar file before the call, and 'updated' when it had one.
C11_StatusTellsCreation ==
    [][\A d \in Docs, s \in States :
          (UpdateSidecarOcr(d, s) /\ ret'.changed) =>
              ret'.status = (IF files[d] = Absent THEN "created" ELSE "updated")]_vars

\* C12: load_sidecar_dict never raises: it returns the parsed value when
\* the text or its normalized form parses, and None for an absent file and
\* for every other file, one that cannot be read or decoded included.
C12_LoadNeverRaises ==
    (ret.op = "load_sidecar_dict") =>
        LET f == files[ret.doc]
        IN  /\ ret.status = "returned"
            /\ ret.value = (IF f.form = "json" THEN f.val
                            ELSE IF f.form = "smart" THEN normalize_json_text(f.val)
                            ELSE PyNone)


(***************************************************************************)
(* Properties of the Document State Machine.                               *)
(***************************************************************************)
Visited == DOMAIN trail

\* the loop has ended, one way or another
PassOver == pass.status \in {"complete", "raised", "interrupted"}

\* C13 as stated: a sidecar the classification pass creates has state
\* 'done' if the document's derived *_ocr.pdf exists and 'unprocessed' if
\* it does not, whatever else holds of the document.
C13_StateByDerivedOnly ==
    (pass.page = "classify") =>
        \A i \in Visited :
            (trail[i].branch = "created") =>
                get_sidecar_ocr_state(trail[i].post) =
                    (IF derived[trail[i].doc] THEN "done" ELSE "unprocessed")

\* C13, amended: the classification pass writes a sidecar for a visited
\* document exactly when the document is image-class and has no sidecar
\* (when this is not a dry run and the write goes through); the record has
\* state 'done' if the derived *_ocr.pdf exists or the document's own name
\* ends in _ocr, and 'unprocessed' otherwise.
C13_CreatedState ==
    (pass.page = "classify") =>
        \A i \in Visited :
            LET e == trail[i]
                want == IF derived[e.doc] \/ attrs[e.doc].suffix = "_ocr"
                        THEN "done" ELSE "unprocessed"
            IN  /\ (e.branch \in {"created", "write_failed", "candidate"}) <=>
                       (doc_kind[e.doc] = "image" /\ e.pre = Absent)
                /\ (e.branch \in {"write_failed", "candidate"}) =>
                       (e.post = Absent
                        /\ (e.branch = "candidate" <=> pass.dry_run))
                /\ (e.branch = "created") =>
                       (/\ ~pass.dry_run
                        /\ e.post = Json(Dict(Payload(NowUtc, want)))
                        /\ get_sidecar_ocr_state(e.post) = want)
                /\ (e.branch \notin {"created"}) => e.post = e.pre

\* an image-class *_ocr document with no derived file of its own got 'done'
C13_Witness ==
    /\ pass.page = "classify" /\ PassOver
    /\ \E i \in Visited :
         /\ trail[i].branch = "created"
         /\ attrs[trail[i].doc].suffix = "_ocr"
         /\ ~derived[trail[i].doc]
         /\ get_sidecar_ocr_state(files[trail[i].doc]) = "done"

\* C14: a document whose name ends in _skip is not visited by the
\* classification pass, is passed over by the batch loop before any other
\* test, is never given to run_ocr, and its sidecar file stays as it was.
C14_SkipNamePrecedence ==
    \A d \in FolderDocs :
        (attrs[d].suffix = "_skip") =>
            /\ files[d] = before[d]
            /\ \A i \in Visited :
                  (trail[i].doc = d) =>
                      /\ pass.page = "batch"
                      /\ trail[i].branch = "skip_name"
                      /\ trail[i].ocr = None
                      /\ trail[i].writes = <<>>
                      /\ trail[i].post = trail[i].pre

\* the batch passed over a locked image-class *_skip document whose
\* sidecar says 'unprocessed' and that has no derived file
C14_Witness ==
    /\ pass.page = "batch" /\ PassOver
    /\ \E i \in Visited :
         LET d == trail[i].doc
         IN  /\ attrs[d].suffix = "_skip" /\ attrs[d].locked
             /\ doc_kind[d] = "image" /\ ~derived[d]
             /\ get_sidecar_ocr_state(files[d]) = "unprocessed"

\* C15: the batch loop never calls run_ocr on a document whose sidecar
\* state is 'failed', 'text', 'done', 'skipped' or 'locked'.
C15_OnlyUnprocessedAttempted ==
    \A i \in Visited :
        (trail[i].ocr # None) =>
            get_sidecar_ocr_state(trail[i].pre)
                \notin {"failed", "text", "done", "skipped", "locked"}

\* C16: when a loop of either page has ended, every sidecar that was in
\* state 'text' or 'skipped' when the loop began is in that state still.
C16_TextSkippedKept ==
    PassOver =>
        \A d \in FolderDocs :
            (get_sidecar_ocr_state(before[d]) \in {"text", "skipped"}) =>
                get_sidecar_ocr_state(files[d]) = get_sidecar_ocr_state(before[d])

C19_WriteFailureContained ==
    \A i \in Visited :
        LET e == trail[i]
        IN  (e.branch \in {"locked", "ocr"}
             /\ \E k \in DOMAIN e.writes : e.writes[k].raised) =>
                /\ ~e.uncaught
                /\ e.post = e.pre

\* C20 as stated: a document reported locked is never given to run_ocr,
\* and the batch loop leaves its sidecar in state 'locked' without raising.
C20_LockedAlwaysRecorded ==
    (pass.page = "batch") =>
        \A i \in Visited :
            (attrs[trail[i].doc].locked) =>
                /\ trail[i].ocr = None
                /\ ~trail[i].uncaught
                /\ get_sidecar_ocr_state(trail[i].post) = "locked"

\* C20, amended: a document reported locked is never given to run_ocr and
\* its iteration never raises; the loop writes 'locked' for it exactly when
\* its name ends neither in _ocr nor in _skip and its sidecar does not say
\* 'skipped', and, the write having gone through, its sidecar (created if
\* absent) is in state 'locked'; otherwise its sidecar is left as it was.
C20_LockedSetAside ==
    (pass.page = "batch") =>
        \A i \in Visited :
            LET e == trail[i]
            IN  (attrs[e.doc].locked) =>
                    /\ e.ocr = None
                    /\ ~e.uncaught
                    /\ (e.branch = "locked") <=>
                          (/\ attrs[e.doc].suffix = ""
                           /\ get_sidecar_ocr_state(e.pre) # "skipped")
                    /\ (e.branch = "locked" /\ ~e.writes[1].raised) =>
                          /\ e.post.form = "json"
                          /\ get_sidecar_ocr_state(e.post) = "locked"
                    /\ (e.branch # "locked" \/ e.writes[1].raised) =>
                          e.post = e.pre

\* a locked document without a sidecar got one in state 'locked'
C20_Witness ==
    /\ pass.page = "batch"
    /\ \E i \in Visited :
         /\ attrs[trail[i].doc].locked
         /\ trail[i].pre = Absent
         /\ trail[i].ocr = None
         /\ get_sidecar_ocr_state(files[trail[i].doc]) = "locked"

\* the derived *_ocr.pdf of the document of entry e was there when the batch
\* loop came to the document
DerivedBefore(e) == derived[e.doc] /\ e.ocr # "returned"

\* C21 as stated: a batch run over a document whose derived *_ocr.pdf
\* already exists does not call run_ocr for it and leaves the state of its
\* sidecar as it was.
C21_RerunChangesNothing ==
    (pass.page = "batch") =>
        \A i \in Visited :
            DerivedBefore(trail[i]) =>
                /\ trail[i].ocr = None
                /\ get_sidecar_ocr_state(trail[i].post)
                       = get_sidecar_ocr_state(trail[i].pre)

\* C21, amended: a batch run over a document whose derived *_ocr.pdf already
\* exists does not call run_ocr for it; the state of its sidecar changes only
\* for a document reported locked whose name ends neither in _ocr nor in
\* _skip and whose sidecar does not say 'skipped', and then to 'locked'.
C21_RerunRunsNoOcr ==
    (pass.page = "batch") =>
        \A i \in Visited :
            DerivedBefore(trail[i]) =>
                /\ trail[i].ocr = None
                /\ (get_sidecar_ocr_state(trail[i].post)
                        # get_sidecar_ocr_state(trail[i].pre)) =>
                       /\ attrs[trail[i].doc].locked
                       /\ attrs[trail[i].doc].suffix = ""
                       /\ get_sidecar_ocr_state(trail[i].pre) # "skipped"
                       /\ get_sidecar_ocr_state(trail[i].post) = "locked"

\* the second batch run comes to a document whose derived file exists and
\* whose sidecar says 'done', and leaves the sidecar file as it is
C21_Witness ==
    /\ pass.page = "batch" /\ pass.run = MaxRuns
    /\ \E i \in Visited :
         /\ trail[i].branch = "exists"
         /\ derived[trail[i].doc]
         /\ get_sidecar_ocr_state(trail[i].pre) = "done"
         /\ before[trail[i].doc] = trail[i].pre
         /\ files[trail[i].doc] = trail[i].pre

\* C22: the classification pass and the batch loop create a sidecar only for
\* a document classified image-class, never for a text-class or an
\* unclassifiable one.
C22_SidecarOnlyForImage ==
    \A d \in DOMAIN before :
        (before[d] = Absent /\ files[d] # Absent) => doc_kind[d] = "image"

\* C25: a document whose name ends in _ocr is never passed to run_ocr by the
\* batch loop, and when the classification pass writes the sidecar of such a
\* document, classified image-class, the state it writes is 'done' whether
\* or not a further derived file exists.
C25_OcrNamedIsArtifact ==
    \A i \in Visited :
        (attrs[trail[i].doc].suffix = "_ocr") =>
            /\ (pass.page = "batch") =>
                   /\ trail[i].ocr = None
                   /\ trail[i].writes = <<>>
            /\ (/\ pass.page = "classify" /\ ~pass.dry_run
                /\ doc_kind[trail[i].doc] = "image"
                /\ trail[i].pre = Absent) =>
                   /\ Len(trail[i].writes) = 1
                   /\ trail[i].writes[1].state = "done"
                   /\ (trail[i].post # Absent) =>
                          get_sidecar_ocr_state(trail[i].post) = "done"

\* the classification pass creates the sidecar of an image-class *_ocr
\* document that has a derived file of its own, with state 'done'
C25_Witness ==
    /\ pass.page = "classify"
    /\ \E i \in Visited :
         /\ attrs[trail[i].doc].suffix = "_ocr"
         /\ derived[trail[i].doc]
         /\ trail[i].pre = Absent
         /\ get_sidecar_ocr_state(files[trail[i].doc]) = "done"

\* C28: the batch loop writes a document's sidecar only when it called
\* run_ocr on the document or found it locked; a document skipped for its
\* _skip or _ocr name, for a sidecar that says 'skipped', or, not being
\* locked, for not being image-class, for a failed classification or for an
\* existing derived file, keeps its sidecar file as it was.
C28_BatchWriteFrame ==
    (pass.page = "batch") =>
        \A i \in Visited :
            LET e == trail[i]
                a == attrs[e.doc]
            IN  /\ (e.writes # <<>> \/ e.post # e.pre) =>
                       (e.ocr # None \/ a.locked)
                /\ (\/ a.suffix \in {"_skip", "_ocr"}
                    \/ get_sidecar_ocr_state(e.pre) = "skipped"
                    \/ /\ ~a.locked
                       /\ \/ doc_kind[e.doc] # "image"
                          \/ DerivedBefore(e)) =>
                       /\ e.ocr = None
                       /\ e.writes = <<>>
                       /\ e.post = e.pre

\* the batch loop passes over a text-class document whose sidecar says
\* 'unprocessed' and leaves the file as it was
C28_Witness ==
    /\ pass.page = "batch"
    /\ \E i \in Visited :
         /\ trail[i].branch = "not_image"
         /\ get_sidecar_ocr_state(trail[i].pre) = "unprocessed"
         /\ trail[i].writes = <<>>
         /\ files[trail[i].doc] = trail[i].pre

\* C27: after update_sidecar_ocr(doc, s) has returned,
\* read_ocr_state_for_pdf(doc) returns s, whatever the sidecar held before.
C27_ReadAfterUpdate ==
    [][\A d \in Docs, s \in States :
          (UpdateSidecarOcr(d, s) /\ ret'.changed) =>
              read_ocr_state_for_pdf(files'[d]) = s]_vars

\* the record of file has a 'created_at'
HasCreatedAt(file) ==
    /\ file.form \in {"json", "smart"}
    /\ IsDict(file.val)
    /\ "created_at" \in DOMAIN file.val.d

\* the calls of the override buttons and of update_sidecar_state
OverrideOps == {"override", "update_sidecar_state"}

\* C29: an override button sets 'text' or 'skipped' only on documents whose
\* sidecar says 'unprocessed' when the button is pressed, and
\* update_sidecar_state never creates a sidecar: without one it returns
\* False and leaves none.
C29_OverrideOnlyUnprocessed ==
    [][\A d \in Docs :
          /\ (ret'.op = "override" /\ files'[d] # files[d]) =>
                 /\ get_sidecar_ocr_state(files[d]) = "unprocessed"
                 /\ ret'.arg \in {"text", "skipped"}
                 /\ get_sidecar_ocr_state(files'[d]) = ret'.arg
                 /\ d \in ret'.value
          /\ (ret'.op \in OverrideOps /\ files[d] = Absent) =>
                 files'[d] = Absent
          /\ (ret'.op = "update_sidecar_state" /\ ret'.doc = d
              /\ files[d] = Absent) => ~ret'.changed]_vars

\* the 'text' button has just moved a document from 'unprocessed' to 'text'
C29_Witness ==
    /\ ret.op = "override" /\ ret.arg = "text" /\ ret.changed
    /\ \E d \in ret.value : get_sidecar_ocr_state(files[d]) = "text"

\* the calls C30 is about
WriterOps ==
    {"update_sidecar_ocr", "ensure_sidecar", "update_sidecar_state",
     "write_sidecar_skipped", "override"}

\* C30: update_sidecar_ocr, ensure_sidecar, update_sidecar_state and
\* write_sidecar_skipped, with overwrite on or off, leave the 'created_at'
\* of an existing record as it was.
C30_CreatedAtKept ==
    [][\A d \in Docs :
          (ret'.op \in WriterOps /\ HasCreatedAt(files[d])) =>
              /\ HasCreatedAt(files'[d])
              /\ files'[d].val.d["created_at"] = files[d].val.d["created_at"]]_vars

\* the subprocess runs and its last output line is more than IdleSec old
Silent ==
    /\ has_cb /\ pc = "cli_loop" /\ child = "running"
    /\ clock - last_out > IdleSec

\* C26: whenever the subprocess is running and more than 180 seconds have
\* passed since its last output line, the supervisor passes a notice with
\* the last known fraction to the callback (unless the subprocess exits, a
\* line arrives or the call ends first).
C26_HeartbeatEmitted ==
    Silent ~> (\/ (cb.kind = "heartbeat" /\ cb.frac = last_frac)
               \/ ~Silent)

\* both calls have returned
AllDone == callers # <<>> /\ \A c \in Callers : callers[c].pc = "done"

\* the record caller c wrote
Written(c) == Json(Dict(callers[c].data))

\* C23: of two interleaved ensure_sidecar(overwrite=False) calls for a
\* document without a sidecar, exactly one reports 'created', the other
\* reports 'exists', and the file holds the record of the one that created.
C23_AtomicCreate ==
    (/\ AllDone
     /\ \A c \in Callers : callers[c].op = "ensure_sidecar"
     /\ \A d \in Docs : before[d] = Absent) =>
        \E c \in Callers :
            /\ callers[c].status = "created"
            /\ \A o \in Callers \ {c} : callers[o].status = "exists"
            /\ files[callers[c].doc] = Written(c)

\* C24: when two updaters (update_sidecar_ocr, update_sidecar_state) act on
\* the existing sidecar of one document at the same time, neither reports an
\* error and the file ends as the record of the one whose write came last.
C24_LastWriterWins ==
    (/\ AllDone
     /\ \A c \in Callers :
            callers[c].op \in {"update_sidecar_ocr", "update_sidecar_state"}
     /\ \A d \in Docs : before[d] # Absent) =>
        /\ \A c \in Callers : callers[c].status \in {"updated", "True"}
        /\ \E c \in Callers :
               /\ callers[c].wseq = Cardinality(Callers)
               /\ files[callers[c].doc] = Written(c)

=============================================================================
